---- MODULE Spec2Model ----
(***************************************************************************)
(* Visualize-F1: the session cache probe and the bulk-refresh job of       *)
(* src/trial/try2.py, the session loader of src/trial/f1 - Copy.py and the *)
(* Load button of src/app.py.                                              *)
(*                                                                         *)
(* The FastF1 library is the environment.  Its calls get_event_schedule,   *)
(* get_session and session.load() are modelled by their possible outcomes: *)
(* a call may succeed with laps, succeed with an empty lap table, or       *)
(* raise; a load that raises may already have written a part of its cache  *)
(* entry.  Where the library puts an entry below the cache root is its own *)
(* choice (layoutMatches): the repository only probes one path.            *)
(*                                                                         *)
(* The script and the page are two programs that share nothing but the     *)
(* cache directory and that are not run at the same time (single process,  *)
(* single writer): a behaviour is the use of one cache directory by one of *)
(* them (program), from an empty cache on.                                 *)
(*                                                                         *)
(* The analytics of the page are functions of the loaded session and of    *)
(* the text box.  Each has a specification of its own that draws its       *)
(* inputs in the initial state: SpecLaps (driver list and fastest lap),    *)
(* SpecTel (telemetry, tabs and race summary of a driver) and SpecKv (the  *)
(* Predict Lap Time handler and its key=value parser).                     *)
(***************************************************************************)
EXTENDS Integers, Sequences, FiniteSets, TLC

\* ------------------------------------------------------------------ bounds
NumEvents == 2      \* events of a season's schedule, for the script
NumSessions == 2    \* how many of SESSIONS the script iterates
NumAppSeasons == 1  \* how many of the page's seasons the model offers
NumAppEvents == 1   \* events of a season's schedule, for the page
NumAppSessions == 2 \* how many of the page's session types the model offers
MaxQuirks == 1      \* failed fetches, empty sessions and data revisions per behaviour
MaxLoads == 2       \* presses of the Load button

\* --------------------------------------------------------- program constants
SEASONS == <<2023, 2024>>
SESSIONS == <<"FP1", "FP2", "FP3", "Q", "SQ", "R">>
\* list(range(2018, 2024))[::-1] and the session types of the page's selectors
APP_SEASONS == <<2023, 2022, 2021, 2020, 2019, 2018>>
APP_SESSIONS == <<"FP1", "FP2", "FP3", "Q", "R">>

EventNames == <<"GP1", "GP2", "GP3", "GP4">>
SessionTypes == SubSeq(SESSIONS, 1, NumSessions)
AppSeasons == SubSeq(APP_SEASONS, 1, NumAppSeasons)
AppSessions == SubSeq(APP_SESSIONS, 1, NumAppSessions)
\* schedule['EventName'] of a season, in schedule order
EventSchedule(season) == SubSeq(EventNames, 1, NumEvents)
\* races['EventName'].tolist() of the season selected on the page
gp_list(season) == SubSeq(EventNames, 1, NumAppEvents)

SeqRange(s) == {s[i] : i \in 1..Len(s)}
\* the (season, event, session type) tuples of a run of the script, and of the page
RunKeys == UNION {{<<y, g, s>> : g \in SeqRange(EventSchedule(y)), s \in SeqRange(SessionTypes)} :
                  y \in SeqRange(SEASONS)}
LoadKeys == UNION {{<<y, g, s>> : g \in SeqRange(gp_list(y)), s \in SeqRange(AppSessions)} :
                   y \in SeqRange(AppSeasons)}
Keys == RunKeys \cup LoadKeys

NoKey == <<0, "", "">>
NoData == [key |-> NoKey, ver |-> 0, laps |-> "unset"]
NoEntry == [state |-> "none", data |-> NoData]
Outcomes == {"ok", "empty", "notfound", "neterr"}
Failures == {"notfound", "neterr"}

VARIABLES
    program,        \* the program that uses the cache directory: "try2" or "app"
    layoutMatches,  \* the library's entry directory of a key is the probed path
    cache,          \* the cache directory: key -> [state, data]
    upstreamVer,    \* revision of the data the provider serves
    quirks,         \* failed and empty session fetches so far
    pc,             \* position of the bulk-refresh script
    si, ei, xi,     \* loop indices: season, event, session type
    log,            \* lines printed by the script in this run: <<status, key>>
    upstreamCalls,  \* upstream fetch attempts of this run: <<key, outcome>>
    pass,           \* runs of the script on this cache: "none", "first", "later"
    session_state,  \* st.session_state of the page
    lastCall,       \* the last load_session_data call: key, upstream outcome, result
    loads,          \* Load presses so far
    selectors,      \* the page's selectors now: <<season, selected_gp, session_name>>
    laps,           \* session.laps of the loaded session: one record per lap
    call,           \* the last lap analytics call: function, argument, result
    car_data,       \* fastest_lap.get_car_data(): [columns, rows]
    emptyIntegrates,\* the library integrates a table without samples (or raises)
    driver_laps,    \* session.laps.pick_drivers(selected_driver): [columns, rows]
    page,           \* the driver part of the page as rendered by the last run
    user_kv_text,   \* the text of the key=value box: a sequence of characters
    prediction,     \* what the last press of Predict Lap Time did
    artifact,       \* models/laptime_best_model.pkl now: "ok", "missing", "corrupt"
    pipeline,       \* the object the artifact holds: its steps and importances
    resource_cache, \* the st.cache_resource entry of load_laptime_model
    disk_reads,     \* joblib.load calls of this process
    tab6,           \* the model tab as drawn by the last run of the page script
    pagerun         \* the driver part of the last run of the page script: its calls

vars == <<program, layoutMatches, cache, upstreamVer, quirks, pc, si, ei, xi, log,
          upstreamCalls, pass, session_state, lastCall, loads, selectors, laps, call,
          car_data, emptyIntegrates, driver_laps, page, user_kv_text, prediction,
          artifact, pipeline, resource_cache, disk_reads, tab6, pagerun>>
cacheVars == <<program, layoutMatches, cache, upstreamVer, quirks, pc, si, ei, xi, log,
               upstreamCalls, pass, session_state, lastCall, loads, selectors>>
lapVars == <<laps, call>>
telVars == <<car_data, emptyIntegrates, driver_laps, page>>
kvVars == <<user_kv_text, prediction>>
modelVars == <<artifact, pipeline, resource_cache, disk_reads, tab6>>
pageVars == <<pagerun>>
analyticsVars == <<lapVars, telVars, kvVars, modelVars, pageVars>>
jobVars == <<pc, si, ei, xi, log, upstreamCalls, pass>>
appVars == <<session_state, lastCall, loads, selectors>>

\* ----------------------------------------------------------- Session Cache
\* f"cache/{year}/{gp_name}/{session_name}"
cache_path(year, gp_name, session_name) ==
    <<"cache", year, <<"plain", gp_name>>, <<"plain", session_name>>>>

\* directory under which the library keeps the entry of a key
EntryDir(k) ==
    IF layoutMatches THEN <<"cache", k[1], <<"plain", k[2]>>, <<"plain", k[3]>>>>
                     ELSE <<"cache", k[1], <<"dated", k[2]>>, <<"dated", k[3]>>>>

\* os.path.exists: a directory exists once the library has written into it
os_path_exists(path) ==
    \E k \in Keys : cache[k].state # "none" /\ EntryDir(k) = path

session_exists(year, gp_name, session_name) ==
    os_path_exists(cache_path(year, gp_name, session_name))

exists(k) == session_exists(k[1], k[2], k[3])

\* fastf1.get_session(...) followed by session.load() for key k, on cache c:
\* a complete entry is read back; otherwise the provider is asked, and its
\* outcome decides the result and what is left in the cache: "notfound"
\* fails in get_session, before anything is written; "neterr" breaks the load
\* off after the library has begun to write the entry.
LibLoad(c, k, outcome, ver) ==
    IF c[k].state = "complete"
    THEN [raised |-> FALSE, error |-> "", session |-> c[k].data,
          calls |-> <<>>, cache |-> c]
    ELSE IF outcome \in Failures
    THEN [raised |-> TRUE, error |-> outcome, session |-> NoData,
          calls |-> <<outcome>>,
          cache |-> IF outcome = "neterr"
                    THEN [c EXCEPT ![k] = [state |-> "partial", data |-> NoData]]
                    ELSE c]
    ELSE LET d == [key |-> k, ver |-> ver,
                   laps |-> IF outcome = "empty" THEN "empty" ELSE "some"]
         IN [raised |-> FALSE, error |-> "", session |-> d,
             calls |-> <<outcome>>,
             cache |-> [c EXCEPT ![k] = [state |-> "complete", data |-> d]]]

\* what an upstream outcome takes of the budget of non-nominal events
Cost(c, k, outcome) ==
    IF c[k].state # "complete" /\ outcome # "ok" THEN 1 ELSE 0

\* the provider revises its data, between two uses of the cache
Republish ==
    /\ pc \in {"idle", "done", "aborted"}
    /\ quirks < MaxQuirks
    /\ quirks' = quirks + 1
    /\ upstreamVer = 0
    /\ upstreamVer' = 1
    /\ UNCHANGED analyticsVars
    /\ UNCHANGED <<program, layoutMatches, cache, jobVars, appVars>>

\* ------------------------------------------------------ bulk-refresh script
\* fetch_session_data with a second attempt after a failed one
fetch_session_data_retry(c, k, outcome, ver) ==
    LET r == LibLoad(c, k, outcome, ver)
        status == IF r.raised THEN "failed"
                  ELSE IF r.session.laps # "empty" THEN "loaded" ELSE "nolaps"
    IN [lines |-> <<<<"checking", k>>, <<status, k>>>>,
        cache |-> r.cache,
        calls |-> IF r.raised THEN r.calls \o r.calls ELSE r.calls,
        raised |-> FALSE]

\* fetch_session_data that takes an empty lap table for a failure
fetch_session_data_emptyfails(c, k, outcome, ver) ==
    LET r == LibLoad(c, k, outcome, ver)
        status == IF r.raised \/ r.session.laps = "empty" THEN "failed" ELSE "loaded"
    IN [lines |-> <<<<"checking", k>>, <<status, k>>>>,
        cache |-> r.cache, calls |-> r.calls, raised |-> FALSE]

\* fetch_session_data: everything between try and except; the result is the
\* lines printed, the cache left behind and the upstream attempts made.
fetch_session_data(c, k, outcome, ver) ==
    LET r == LibLoad(c, k, outcome, ver)
        status == IF r.raised THEN "failed"
                  ELSE IF r.session.laps # "empty" THEN "loaded" ELSE "nolaps"
    IN [lines |-> <<<<"checking", k>>, <<status, k>>>>,
        cache |-> r.cache, calls |-> r.calls, raised |-> FALSE]

CurKey == <<SEASONS[si], EventSchedule(SEASONS[si])[ei], SessionTypes[xi]>>

\* the three nested for loops: the position after the current iteration
Advance ==
    IF xi < Len(SessionTypes)
    THEN /\ xi' = xi + 1 /\ pc' = "check" /\ UNCHANGED <<si, ei>>
    ELSE IF ei < Len(EventSchedule(SEASONS[si]))
    THEN /\ xi' = 1 /\ ei' = ei + 1 /\ pc' = "check" /\ UNCHANGED si
    ELSE /\ xi' = 1 /\ ei' = 1
         /\ IF si < Len(SEASONS) THEN si' = si + 1 /\ pc' = "schedule"
                                 ELSE si' = si /\ pc' = "final"

StartRun ==
    /\ program = "try2"
    /\ \/ pc = "idle" /\ pass = "none" /\ pass' = "first"
       \/ pc \in {"done", "aborted"} /\ pass = "first" /\ pass' = "later"
    /\ pc' = "schedule" /\ si' = 1 /\ ei' = 1 /\ xi' = 1
    /\ log' = <<>>
    /\ upstreamCalls' = <<>>
    /\ UNCHANGED analyticsVars
    /\ UNCHANGED <<program, layoutMatches, cache, upstreamVer, quirks, appVars>>

\* schedule = fastf1.get_event_schedule(season): outside any try
GetSchedule(ok) ==
    /\ pc = "schedule"
    /\ pc' = IF ok THEN "check" ELSE "aborted"
    /\ UNCHANGED analyticsVars
    /\ UNCHANGED <<program, layoutMatches, cache, upstreamVer, quirks, si, ei, xi, log,
                   upstreamCalls, pass, appVars>>

\* one iteration whose key is not found in the cache
JobFetch(outcome) ==
    /\ pc = "check"
    /\ ~session_exists(CurKey[1], CurKey[2], CurKey[3])
    /\ quirks + Cost(cache, CurKey, outcome) <= MaxQuirks
    /\ LET f == fetch_session_data(cache, CurKey, outcome, upstreamVer)
       IN /\ log' = log \o f.lines
          /\ cache' = f.cache
          /\ upstreamCalls' = upstreamCalls \o [i \in 1..Len(f.calls) |-> <<CurKey, f.calls[i]>>]
          /\ IF f.raised THEN pc' = "aborted" /\ UNCHANGED <<si, ei, xi>> ELSE Advance
    /\ quirks' = quirks + Cost(cache, CurKey, outcome)
    /\ UNCHANGED analyticsVars
    /\ UNCHANGED <<program, layoutMatches, upstreamVer, pass, appVars>>

\* one iteration whose key is found in the cache
JobCached ==
    /\ pc = "check"
    /\ session_exists(CurKey[1], CurKey[2], CurKey[3])
    /\ log' = Append(log, <<"cached", CurKey>>)
    /\ Advance
    /\ UNCHANGED analyticsVars
    /\ UNCHANGED <<program, layoutMatches, cache, upstreamVer, quirks, upstreamCalls, pass,
                   appVars>>

\* print("All sessions checked. Missing data downloaded.")
Finish ==
    /\ pc = "final"
    /\ pc' = "done"
    /\ log' = Append(log, <<"allchecked", NoKey>>)
    /\ UNCHANGED analyticsVars
    /\ UNCHANGED <<program, layoutMatches, cache, upstreamVer, quirks, si, ei, xi,
                   upstreamCalls, pass, appVars>>

\* ------------------------------------------------------------ session loader
\* load_session_data that has the library ignore its cache and fetch anew
load_session_data_refetch(c, season, gp_name, session_name, outcome, ver) ==
    LET k == <<season, gp_name, session_name>>
        r == LibLoad([c EXCEPT ![k] = NoEntry], k, outcome, ver)
    IN [raised |-> r.raised, error |-> r.error, session |-> r.session,
        calls |-> r.calls, cache |-> r.cache, lines |-> <<>>]

\* load_session_data that catches what the library raises and returns nothing
load_session_data_swallow(c, season, gp_name, session_name, outcome, ver) ==
    LET r == LibLoad(c, <<season, gp_name, session_name>>, outcome, ver)
    IN [raised |-> FALSE, error |-> "", session |-> r.session,
        calls |-> r.calls, cache |-> r.cache, lines |-> <<>>]

\* load_session_data: no try, no probe of the cache; whatever the library
\* raises leaves the function, whatever it returns is returned.
load_session_data(c, season, gp_name, session_name, outcome, ver) ==
    LET r == LibLoad(c, <<season, gp_name, session_name>>, outcome, ver)
    IN [raised |-> r.raised, error |-> r.error, session |-> r.session,
        calls |-> r.calls, cache |-> r.cache, lines |-> <<>>]

\* the first option of each selector: what the page shows when it opens
FirstOptions == <<AppSeasons[1], gp_list(AppSeasons[1])[1], AppSessions[1]>>

\* the user takes another option of a selector; the page script runs again
\* (selections are followed as long as a press of Load may come after them)
Select(season, session_name, selected_gp) ==
    /\ program = "app"
    /\ loads < MaxLoads
    /\ selectors # <<season, selected_gp, session_name>>
    /\ selectors' = <<season, selected_gp, session_name>>
    /\ UNCHANGED analyticsVars
    /\ UNCHANGED <<program, layoutMatches, cache, upstreamVer, quirks, jobVars,
                   session_state, lastCall, loads>>

\* the Load button that stores the selection before it loads
PressLoad_storefirst(season, session_name, selected_gp, outcome) ==
    /\ program = "app"
    /\ selectors = <<season, selected_gp, session_name>>
    /\ loads < MaxLoads
    /\ loads' = loads + 1
    /\ quirks + Cost(cache, <<season, selected_gp, session_name>>, outcome) <= MaxQuirks
    /\ quirks' = quirks + Cost(cache, <<season, selected_gp, session_name>>, outcome)
    /\ LET r == load_session_data(cache, season, selected_gp, session_name,
                                  outcome, upstreamVer)
       IN /\ cache' = r.cache
          /\ lastCall' = [key |-> <<season, selected_gp, session_name>>,
                          hit |-> exists(<<season, selected_gp, session_name>>),
                          stored |-> cache[<<season, selected_gp, session_name>>],
                          calls |-> r.calls, raised |-> r.raised,
                          error |-> r.error, session |-> r.session,
                          lines |-> r.lines]
          /\ session_state' =
                [session_data |-> IF r.raised THEN session_state.session_data
                                  ELSE r.session,
                 selected_gp |-> selected_gp,
                 session_name |-> session_name, season |-> season]
    /\ UNCHANGED analyticsVars
    /\ UNCHANGED <<program, layoutMatches, upstreamVer, jobVars, selectors>>

\* the Load Session Data button with the selectors at (season, session_name, selected_gp)
PressLoad(season, session_name, selected_gp, outcome) ==
    /\ program = "app"
    /\ selectors = <<season, selected_gp, session_name>>
    /\ loads < MaxLoads
    /\ loads' = loads + 1
    /\ quirks + Cost(cache, <<season, selected_gp, session_name>>, outcome) <= MaxQuirks
    /\ quirks' = quirks + Cost(cache, <<season, selected_gp, session_name>>, outcome)
    /\ LET r == load_session_data(cache, season, selected_gp, session_name,
                                  outcome, upstreamVer)
       IN /\ cache' = r.cache
          /\ lastCall' = [key |-> <<season, selected_gp, session_name>>,
                          hit |-> exists(<<season, selected_gp, session_name>>),
                          stored |-> cache[<<season, selected_gp, session_name>>],
                          calls |-> r.calls, raised |-> r.raised,
                          error |-> r.error, session |-> r.session,
                          lines |-> r.lines]
          /\ session_state' =
                IF r.raised THEN session_state
                ELSE [session_data |-> r.session, selected_gp |-> selected_gp,
                      session_name |-> session_name, season |-> season]
    /\ UNCHANGED analyticsVars
    /\ UNCHANGED <<program, layoutMatches, upstreamVer, jobVars, selectors>>

\* the Session Info tab of the page as it stands: it is inside the block of
\* the stored session, and only a session with laps has a driver to select
tab5 ==
    IF session_state.session_data.laps # "some"
    THEN [shown |-> FALSE, Event |-> "", Session |-> ""]
    ELSE [shown |-> TRUE,
          Event |-> session_state.session_data.key[2],
          Session |-> selectors[3]]

NoCall == [key |-> NoKey, hit |-> FALSE, stored |-> NoEntry, calls |-> <<>>,
           raised |-> FALSE, error |-> "", session |-> NoData, lines |-> <<>>]

InitCache ==
    /\ program \in {"try2", "app"}
    /\ layoutMatches \in BOOLEAN
    /\ cache = [k \in Keys |-> NoEntry]
    /\ upstreamVer = 0
    /\ quirks = 0
    /\ pc = "idle" /\ si = 1 /\ ei = 1 /\ xi = 1
    /\ log = <<>>
    /\ upstreamCalls = <<>>
    /\ pass = "none"
    /\ session_state = [session_data |-> NoData, selected_gp |-> "",
                        session_name |-> "", season |-> 0]
    /\ lastCall = NoCall
    /\ loads = 0
    /\ selectors = FirstOptions

NoLap == [Driver |-> "", LapTime |-> 0, IsPersonalBest |-> FALSE]
NoAnalytics == [fn |-> "", driver_code |-> "", drivers |-> <<>>, fastest_lap |-> NoLap]

\* no session is analysed
LapsIdle == laps = <<>> /\ call = NoAnalytics

NoTable == [columns |-> {}, rows |-> <<>>]
NoValue == [kind |-> "unset", v |-> 0]
NoSummary == [num_laps |-> 0, top_speed |-> NoValue, tyre_changes |-> NoValue,
              pit_stops_count |-> 0, compounds |-> {}]
NoPage == [done |-> FALSE, rendered |-> <<>>, raised |-> FALSE, error |-> "",
           at |-> "", telemetry |-> NoTable, summary |-> NoSummary]

\* no driver is shown
TelIdle ==
    /\ car_data = NoTable /\ emptyIntegrates = TRUE
    /\ driver_laps = NoTable /\ page = NoPage

NoTyped == [type |-> "", text |-> <<>>, int |-> <<>>, frac |-> <<>>, nan |-> FALSE]
EmptyDict == [k \in {} |-> NoTyped]
NoPrediction == [pressed |-> FALSE, outcome |-> "", feature_dict |-> EmptyDict,
                 predict_calls |-> <<>>, y_pred |-> FALSE, raised |-> FALSE]

\* the box is empty and the button was not pressed
KvIdle == user_kv_text = <<>> /\ prediction = NoPrediction

NoPipeline == [named_steps |-> FALSE, pre |-> FALSE, model |-> FALSE,
               feature_importances_ |-> <<>>, has_importances |-> FALSE,
               names_ok |-> FALSE]
NoCache == [set |-> FALSE, value |-> "None"]
NoExplanation == [outcome |-> "", ranking |-> <<>>]
NoTab == [rendered |-> FALSE, raised |-> FALSE, cache_hit |-> FALSE,
          load_error |-> FALSE, warning |-> FALSE, explanation |-> NoExplanation,
          predict_button |-> FALSE]

\* the driver part of the page was not run
NoRun == [done |-> FALSE, session |-> NoData, calls |-> <<>>, drivers |-> <<>>,
          selected_driver |-> "", fastest_lap |-> NoLap, analytics |-> FALSE]
PageIdle == pagerun = NoRun

\* the model tab was not drawn
ModelIdle ==
    /\ artifact = "ok" /\ pipeline = NoPipeline
    /\ resource_cache = NoCache /\ disk_reads = 0 /\ tab6 = NoTab

\* the model tab was drawn with the pipeline loaded
ModelShown ==
    /\ artifact = "ok" /\ pipeline = NoPipeline
    /\ resource_cache = [set |-> TRUE, value |-> "pipe"] /\ disk_reads = 1
    /\ tab6 = [NoTab EXCEPT !.rendered = TRUE, !.predict_button = TRUE,
                            !.explanation = [outcome |-> "error", ranking |-> <<>>]]

Init == InitCache /\ LapsIdle /\ TelIdle /\ KvIdle /\ ModelIdle /\ PageIdle

Next ==
    \/ Republish
    \/ StartRun
    \/ \E ok \in BOOLEAN : GetSchedule(ok)
    \/ \E o \in Outcomes : JobFetch(o)
    \/ JobCached
    \/ Finish
    \/ \E k \in LoadKeys : Select(k[1], k[3], k[2])
    \/ \E k \in LoadKeys, o \in Outcomes : PressLoad(k[1], k[3], k[2], o)

Spec == Init /\ [][Next]_vars

\* ------------------------------------------------------------ lap analytics
\* src/trial/f1 - Copy.py on the lap table of a loaded session.  A lap is
\* its Driver, its LapTime (0 for a lap without a time) and IsPersonalBest,
\* the flag the timing data puts on a lap that counts as its driver's best so
\* far; a lap without a time is never flagged.
MaxLaps == 3
MaxLapTime == 2

\* the driver codes, listed in ascending lexical order
DriverCodes == <<"HAM", "VER">>
Rank(code) == CHOOSE i \in 1..Len(DriverCodes) : DriverCodes[i] = code

LapRows ==
    {r \in [Driver : SeqRange(DriverCodes), LapTime : 0..MaxLapTime,
            IsPersonalBest : BOOLEAN] : r.IsPersonalBest => r.LapTime > 0}
LapTables == UNION {[1..n -> LapRows] : n \in 0..MaxLaps}

\* Series.unique(): the values in the order of their first appearance
RECURSIVE unique(_)
unique(s) ==
    IF s = <<>> THEN <<>>
    ELSE LET r == unique(SubSeq(s, 1, Len(s) - 1))
             x == s[Len(s)]
         IN IF \E i \in 1..Len(r) : r[i] = x THEN r ELSE Append(r, x)

\* list.sort() of driver codes: ascending, by insertion
Insert(x, s) ==
    LET n == Cardinality({i \in 1..Len(s) : Rank(s[i]) <= Rank(x)})
    IN SubSeq(s, 1, n) \o <<x>> \o SubSeq(s, n + 1, Len(s))
RECURSIVE sort(_)
sort(s) == IF s = <<>> THEN <<>> ELSE Insert(s[Len(s)], sort(SubSeq(s, 1, Len(s) - 1)))

\* get_drivers_in_session without drivers.sort()
get_drivers_in_session_unsorted(session_laps) ==
    unique([i \in 1..Len(session_laps) |-> session_laps[i].Driver])

\* get_drivers_in_session: session.laps['Driver'].unique().tolist(), sorted
get_drivers_in_session(session_laps) ==
    sort(unique([i \in 1..Len(session_laps) |-> session_laps[i].Driver]))

\* Laps.pick_drivers(identifier): the laps of one driver, in table order
pick_drivers(ls, identifier) == SelectSeq(ls, LAMBDA l : l.Driver = identifier)

\* Laps.pick_fastest(), called without only_by_time: the quickest of the laps
\* flagged IsPersonalBest (the first of them on a tie), None without such a lap
pick_fastest(ls) ==
    LET pb == SelectSeq(ls, LAMBDA l : l.IsPersonalBest)
        idxmin == CHOOSE i \in 1..Len(pb) :
                      /\ \A j \in 1..Len(pb) : pb[i].LapTime <= pb[j].LapTime
                      /\ \A j \in 1..(i - 1) : pb[j].LapTime > pb[i].LapTime
    IN IF pb = <<>> THEN NoLap ELSE pb[idxmin]

\* get_fastest_lap that leaves out pick_drivers
get_fastest_lap_anydriver(session_laps, driver_code) ==
    pick_fastest(session_laps)

\* get_fastest_lap: pick_drivers, then pick_fastest
get_fastest_lap(session_laps, driver_code) ==
    pick_fastest(pick_drivers(session_laps, driver_code))

\* drivers = get_drivers_in_session(session)
ListDrivers ==
    /\ call' = [NoAnalytics EXCEPT !.fn = "get_drivers_in_session",
                                   !.drivers = get_drivers_in_session(laps)]
    /\ UNCHANGED <<laps, cacheVars, telVars, kvVars, modelVars, pageVars>>

\* fastest_lap = get_fastest_lap(session, selected_driver)
PickFastest(driver_code) ==
    /\ call' = [NoAnalytics EXCEPT !.fn = "get_fastest_lap",
                                   !.driver_code = driver_code,
                                   !.fastest_lap = get_fastest_lap(laps, driver_code)]
    /\ UNCHANGED <<laps, cacheVars, telVars, kvVars, modelVars, pageVars>>

\* a session is loaded on the page: any lap table
InitLaps ==
    /\ InitCache /\ program = "app" /\ layoutMatches
    /\ laps \in LapTables
    /\ call = NoAnalytics
    /\ TelIdle /\ KvIdle /\ ModelIdle /\ PageIdle

NextLaps ==
    \/ ListDrivers
    \/ \E d \in SeqRange(DriverCodes) : PickFastest(d)

SpecLaps == InitLaps /\ [][NextLaps]_vars

\* --------------------------------------------------- the driver part of a run
\* Lines 133-178 of src/app.py: what a run of the page script does below the
\* Load button, on the session that st.session_state holds.  None is "" for
\* a driver and NoLap for a lap.
MaxPageLaps == 2

\* the laps of a stored session: a session loaded empty has none
LapsOfSession(session, session_laps) ==
    IF session.laps = "some" THEN session_laps ELSE <<>>

\* st.selectbox(label, options): the option taken, None without options
selectbox(options, choice) == IF options = <<>> THEN "" ELSE choice

FnCall(fn, session, driver_code, lap) ==
    [fn |-> fn, session |-> session, driver_code |-> driver_code, lap |-> lap]

\* lines 133-178 without the test of line 144
page_script_nolapcheck(session_data, session_laps, choice) ==
    IF session_data = NoData THEN [NoRun EXCEPT !.done = TRUE]
    ELSE LET ls == LapsOfSession(session_data, session_laps)
             drivers == get_drivers_in_session(ls)
             selected_driver == selectbox(drivers, choice)
             fastest_lap == get_fastest_lap(ls, selected_driver)
             c1 == FnCall("get_drivers_in_session", session_data, "", NoLap)
             c2 == FnCall("get_fastest_lap", session_data, selected_driver, NoLap)
             c3 == FnCall("get_telemetry_data", session_data, selected_driver,
                          fastest_lap)
         IN IF selected_driver = ""
            THEN [NoRun EXCEPT !.done = TRUE, !.session = session_data,
                               !.calls = <<c1>>, !.drivers = drivers]
            ELSE [done |-> TRUE, session |-> session_data,
                  calls |-> <<c1, c2, c3>>, drivers |-> drivers,
                  selected_driver |-> selected_driver,
                  fastest_lap |-> fastest_lap, analytics |-> TRUE]

\* lines 133-178: the guard of the stored session, the driver selector, the
\* fastest lap of the driver and, for a lap that is not None, the driver card
\* and the telemetry of the lap
page_script(session_data, session_laps, choice) ==
    IF session_data = NoData THEN [NoRun EXCEPT !.done = TRUE]
    ELSE LET ls == LapsOfSession(session_data, session_laps)
             drivers == get_drivers_in_session(ls)
             selected_driver == selectbox(drivers, choice)
             fastest_lap == get_fastest_lap(ls, selected_driver)
             c1 == FnCall("get_drivers_in_session", session_data, "", NoLap)
             c2 == FnCall("get_fastest_lap", session_data, selected_driver, NoLap)
             c3 == FnCall("get_telemetry_data", session_data, selected_driver,
                          fastest_lap)
         IN IF selected_driver = ""
            THEN [NoRun EXCEPT !.done = TRUE, !.session = session_data,
                               !.calls = <<c1>>, !.drivers = drivers]
            ELSE IF fastest_lap = NoLap
            THEN [NoRun EXCEPT !.done = TRUE, !.session = session_data,
                               !.calls = <<c1, c2>>, !.drivers = drivers,
                               !.selected_driver = selected_driver]
            ELSE [done |-> TRUE, session |-> session_data,
                  calls |-> <<c1, c2, c3>>, drivers |-> drivers,
                  selected_driver |-> selected_driver,
                  fastest_lap |-> fastest_lap, analytics |-> TRUE]

\* a run of the page script, below the Load button, with the driver selector
\* at choice
RunPage(choice) ==
    /\ LET drivers == get_drivers_in_session(
                          LapsOfSession(session_state.session_data, laps))
       IN choice \in SeqRange(drivers) \/ (drivers = <<>> /\ choice = DriverCodes[1])
    /\ pagerun' = page_script(session_state.session_data, laps, choice)
    /\ UNCHANGED <<laps, call, cacheVars, telVars, kvVars, modelVars>>

\* the page is opened; laps is the lap table the provider has for the session
InitPage ==
    /\ InitCache /\ program = "app" /\ layoutMatches
    /\ laps \in {t \in LapTables : Len(t) <= MaxPageLaps}
    /\ call = NoAnalytics
    /\ TelIdle /\ KvIdle /\ ModelIdle /\ PageIdle

NextPage ==
    \/ \E k \in LoadKeys, o \in Outcomes : PressLoad(k[1], k[3], k[2], o)
    \/ \E d \in SeqRange(DriverCodes) : RunPage(d)

SpecPage == InitPage /\ [][NextPage]_vars

\* ------------------------------------------------- telemetry and the summary
\* The part of src/app.py that shows one driver: the telemetry of the fastest
\* lap (get_telemetry_data of src/trial/f1 - Copy.py) and the tabs drawn from
\* it and from the driver's laps.  Nothing between line 177 and the model tab
\* catches what these steps raise: the first step that raises ends the run of
\* the page script.  Speeds are in m/s and times in s, so that the library's
\* Speed / 3.6 * dt is Speed * dt; Time is the time since the start of the lap.
MaxSamples == 2
MaxSpeed == 2
MaxTime == 2
MaxDriverLaps == 1

Compounds == {"SOFT", "HARD", "None"}

CarDataRows ==
    UNION {{r \in [1..n -> [Time : 0..MaxTime, Speed : 0..MaxSpeed]] :
               \A i, j \in 1..n : i < j => r[i].Time < r[j].Time}
           : n \in 0..MaxSamples}
\* a table without the Speed column carries no speeds
CarDataTables ==
    {[columns |-> {"Time", "Speed"}, rows |-> r] : r \in CarDataRows}
    \cup {[columns |-> {"Time"}, rows |-> r] :
             r \in {q \in CarDataRows : \A i \in 1..Len(q) : q[i].Speed = 0}}

\* the laps of the driver; PitInTime 0 is a lap without a pit entry; a column
\* that the table lacks carries no values
DriverLapsTables ==
    {t \in [columns : SUBSET {"Compound", "PitInTime"},
            rows : UNION {[1..n -> [Compound : Compounds, PitInTime : 0..1]]
                          : n \in 0..MaxDriverLaps}] :
        \A i \in 1..Len(t.rows) :
            /\ "Compound" \notin t.columns => t.rows[i].Compound = "None"
            /\ "PitInTime" \notin t.columns => t.rows[i].PitInTime = 0}

Num(n) == [kind |-> "num", v |-> n]
NaN == [kind |-> "nan", v |-> 0]
NA == [kind |-> "N/A", v |-> 0]

\* Telemetry.integrate_distance: the running sum of Speed * dt, where dt of a
\* sample is the time since the sample before it and dt of the first sample
\* is its Time
RECURSIVE integrate_distance(_, _)
integrate_distance(rows, i) ==
    IF i = 0 THEN 0
    ELSE integrate_distance(rows, i - 1)
         + rows[i].Speed * (rows[i].Time - (IF i = 1 THEN 0 ELSE rows[i - 1].Time))

\* Telemetry.add_distance: the same samples with the column Distance
add_distance(t) ==
    [columns |-> t.columns \cup {"Distance"},
     rows |-> [i \in 1..Len(t.rows) |->
                  [Time |-> t.rows[i].Time, Speed |-> t.rows[i].Speed,
                   Distance |-> integrate_distance(t.rows, i)]]]

\* get_telemetry_data that loses the first sample
get_telemetry_data_dropfirst(cd, integrates) ==
    IF "Speed" \notin cd.columns
    THEN [raised |-> TRUE, error |-> "KeyError", telemetry |-> NoTable]
    ELSE IF cd.rows = <<>> /\ ~integrates
    THEN [raised |-> TRUE, error |-> "IndexError", telemetry |-> NoTable]
    ELSE [raised |-> FALSE, error |-> "",
          telemetry |-> [columns |-> add_distance(cd).columns,
                         rows |-> SubSeq(add_distance(cd).rows, 2, Len(cd.rows))]]

\* get_telemetry_data: fastest_lap.get_car_data().add_distance().  The
\* integration reads the column Speed; what it does with no sample at all is
\* the library's choice (integrates).
get_telemetry_data(cd, integrates) ==
    IF "Speed" \notin cd.columns
    THEN [raised |-> TRUE, error |-> "KeyError", telemetry |-> NoTable]
    ELSE IF cd.rows = <<>> /\ ~integrates
    THEN [raised |-> TRUE, error |-> "IndexError", telemetry |-> NoTable]
    ELSE [raised |-> FALSE, error |-> "", telemetry |-> add_distance(cd)]

Max(S) == CHOOSE m \in S : \A x \in S : x <= m

\* tab 1: ax1.plot(telemetry['Distance'], telemetry['Speed'], ...)
telemetry_graphs(telemetry) ==
    IF {"Distance", "Speed"} \subseteq telemetry.columns
    THEN [raised |-> FALSE, error |-> ""]
    ELSE [raised |-> TRUE, error |-> "KeyError"]

\* tab 2: the stints; groupby(['Stint', 'Compound']) leaves out the laps
\* without a compound
tyre_strategy(dl) ==
    IF "Compound" \in dl.columns
    THEN [raised |-> FALSE, error |-> ""]
    ELSE [raised |-> TRUE, error |-> "KeyError"]

\* Driver Race Summary with the built-in max(), which raises on no value
driver_race_summary_builtinmax(telemetry, dl) ==
    LET num_laps == Len(dl.rows)
        top_speed ==
            IF "Speed" \in telemetry.columns
            THEN IF telemetry.rows = <<>> THEN NoValue
                 ELSE Num(Max({telemetry.rows[i].Speed : i \in 1..Len(telemetry.rows)}))
            ELSE NA
        used == {dl.rows[i].Compound : i \in 1..Len(dl.rows)}
        tyre_changes ==
            IF "Compound" \in dl.columns THEN Num(Cardinality(used \ {"None"})) ELSE NA
        pit_stops_count == Cardinality({i \in 1..Len(dl.rows) : dl.rows[i].PitInTime # 0})
        error == IF top_speed = NoValue THEN "ValueError"
                 ELSE IF "PitInTime" \notin dl.columns THEN "KeyError"
                 ELSE IF "Compound" \notin dl.columns THEN "KeyError"
                 ELSE IF top_speed.kind = "N/A" THEN "ValueError"
                 ELSE ""
    IN [raised |-> error # "", error |-> error,
        summary |-> IF error # "" THEN NoSummary
                    ELSE [num_laps |-> num_laps, top_speed |-> top_speed,
                          tyre_changes |-> tyre_changes,
                          pit_stops_count |-> pit_stops_count, compounds |-> used]]

\* Driver Race Summary: the four values and the text that shows them.  The
\* text reads driver_laps['Compound'] without a guard and formats top_speed
\* with :.1f, which a number and NaN accept and the string 'N/A' does not.
driver_race_summary(telemetry, dl) ==
    LET num_laps == Len(dl.rows)
        top_speed ==
            IF "Speed" \in telemetry.columns
            THEN IF telemetry.rows = <<>> THEN NaN
                 ELSE Num(Max({telemetry.rows[i].Speed : i \in 1..Len(telemetry.rows)}))
            ELSE NA
        used == {dl.rows[i].Compound : i \in 1..Len(dl.rows)}
        tyre_changes ==
            IF "Compound" \in dl.columns THEN Num(Cardinality(used \ {"None"})) ELSE NA
        pit_stops_count == Cardinality({i \in 1..Len(dl.rows) : dl.rows[i].PitInTime # 0})
        error == IF "PitInTime" \notin dl.columns THEN "KeyError"
                 ELSE IF "Compound" \notin dl.columns THEN "KeyError"
                 ELSE IF top_speed.kind = "N/A" THEN "ValueError"
                 ELSE ""
    IN [raised |-> error # "", error |-> error,
        summary |-> IF error # "" THEN NoSummary
                    ELSE [num_laps |-> num_laps, top_speed |-> top_speed,
                          tyre_changes |-> tyre_changes,
                          pit_stops_count |-> pit_stops_count, compounds |-> used]]

\* Pit Stop Details: driver_laps[driver_laps['PitInTime'].notnull()]
pit_stop_details(dl) ==
    IF "PitInTime" \in dl.columns
    THEN [raised |-> FALSE, error |-> ""]
    ELSE [raised |-> TRUE, error |-> "KeyError"]

\* the steps of one run of the page script for the selected driver, in order
Sections == <<"telemetry", "graphs", "tyres", "summary", "pits", "model">>

Step(name, telemetry, cd, dl, integrates) ==
    CASE name = "telemetry" -> get_telemetry_data(cd, integrates)
      [] name = "graphs" -> telemetry_graphs(telemetry)
      [] name = "tyres" -> tyre_strategy(dl)
      [] name = "summary" -> driver_race_summary(telemetry, dl)
      [] name = "pits" -> pit_stop_details(dl)
      [] OTHER -> [raised |-> FALSE, error |-> ""]

\* the page after the steps from the n-th on
RECURSIVE RunFrom(_, _, _, _, _)
RunFrom(n, pg, cd, dl, integrates) ==
    IF n > Len(Sections) THEN [pg EXCEPT !.done = TRUE]
    ELSE LET r == Step(Sections[n], pg.telemetry, cd, dl, integrates)
         IN IF r.raised
            THEN [pg EXCEPT !.done = TRUE, !.raised = TRUE, !.error = r.error,
                               !.at = Sections[n]]
            ELSE RunFrom(n + 1,
                         [pg EXCEPT !.rendered = Append(@, Sections[n]),
                                    !.telemetry = IF Sections[n] = "telemetry"
                                                  THEN r.telemetry ELSE @,
                                    !.summary = IF Sections[n] = "summary"
                                                THEN r.summary ELSE @],
                         cd, dl, integrates)

\* one run of the page script with a driver selected: lines 177 to the end
RenderDriver ==
    /\ ~page.done
    /\ page' = RunFrom(1, NoPage, car_data, driver_laps, emptyIntegrates)
    /\ UNCHANGED <<car_data, emptyIntegrates, driver_laps, cacheVars, lapVars, kvVars,
                   modelVars, pageVars>>

InitTel ==
    /\ InitCache /\ program = "app" /\ layoutMatches
    /\ LapsIdle
    /\ car_data \in CarDataTables
    /\ emptyIntegrates \in BOOLEAN
    /\ car_data.rows # <<>> => emptyIntegrates
    /\ driver_laps \in DriverLapsTables
    /\ page = NoPage
    /\ KvIdle /\ ModelIdle /\ PageIdle

NextTel == RenderDriver

SpecTel == InitTel /\ [][NextTel]_vars

\* ------------------------------------------------------- the feature parser
\* The handler of the Predict Lap Time button of src/app.py, lines 639-675,
\* with the model loaded.  A text is a sequence of characters; the lines of
\* the box are separated by "\n".
MaxLineLen == 3
MaxLastLineLen == 2
MaxValLen == 3

Whitespace == {" ", "\n"}
Digits == {"0", "1", "2", "3", "4", "5", "6", "7", "8", "9"}
LineAlphabet == {"k", "=", "1", " "}
ValAlphabet == {"0", "1", ".", "n", "a"}

StringsOver(alphabet, maxLen) == UNION {[1..n -> alphabet] : n \in 0..maxLen}
KvLines == StringsOver(LineAlphabet, MaxLineLen)
\* the box holds one line, or a line and a last line, or the key k with a
\* value in digits, '.' and letters
KvTexts ==
    KvLines
    \cup {l1 \o <<"\n">> \o l2 :
             l1 \in KvLines, l2 \in StringsOver(LineAlphabet, MaxLastLineLen)}
    \cup {<<"k", "=">> \o v : v \in StringsOver(ValAlphabet, MaxValLen)}

\* str.strip(): without the whitespace at both ends
RECURSIVE strip(_)
strip(t) ==
    IF t = <<>> THEN <<>>
    ELSE IF Head(t) \in Whitespace THEN strip(Tail(t))
    ELSE IF t[Len(t)] \in Whitespace THEN strip(SubSeq(t, 1, Len(t) - 1))
    ELSE t

\* str.splitlines(): the pieces between the line ends; a line end at the end
\* of the text starts no further line
RECURSIVE splitlines(_)
splitlines(t) ==
    IF t = <<>> THEN <<>>
    ELSE IF \E i \in 1..Len(t) : t[i] = "\n"
    THEN LET i == CHOOSE i \in 1..Len(t) :
                      t[i] = "\n" /\ \A j \in 1..(i - 1) : t[j] # "\n"
         IN <<SubSeq(t, 1, i - 1)>> \o splitlines(SubSeq(t, i + 1, Len(t)))
    ELSE <<t>>

Contains(t, c) == \E i \in 1..Len(t) : t[i] = c

\* line.split("=", 1) that cuts at the last '='
split_last(line) ==
    LET i == CHOOSE i \in 1..Len(line) :
                 line[i] = "=" /\ \A j \in (i + 1)..Len(line) : line[j] # "="
    IN <<SubSeq(line, 1, i - 1), SubSeq(line, i + 1, Len(line))>>

\* line.split("=", 1) of a line that holds '=': the text before the first '='
\* and the text after it
split_first(line) ==
    LET i == CHOOSE i \in 1..Len(line) :
                 line[i] = "=" /\ \A j \in 1..(i - 1) : line[j] # "="
    IN <<SubSeq(line, 1, i - 1), SubSeq(line, i + 1, Len(line))>>

RECURSIVE lstrip_zeros(_)
lstrip_zeros(t) == IF t # <<>> /\ Head(t) = "0" THEN lstrip_zeros(Tail(t)) ELSE t
RECURSIVE rstrip_zeros(_)
rstrip_zeros(t) ==
    IF t # <<>> /\ t[Len(t)] = "0" THEN rstrip_zeros(SubSeq(t, 1, Len(t) - 1)) ELSE t

\* float(val) of a text of digits, '.' and letters: the number of a decimal
\* literal (digits with at most one '.', at least one digit) as its integer
\* and fraction digits without the zeros that do not count, the float nan of
\* the text "nan", ValueError (ok FALSE) of any other text
float(val) ==
    LET t == strip(val)
        dots == {i \in 1..Len(t) : t[i] = "."}
        literal == /\ \A i \in 1..Len(t) : t[i] \in Digits \cup {"."}
                   /\ Cardinality(dots) <= 1
                   /\ \E i \in 1..Len(t) : t[i] \in Digits
        dot == IF dots = {} THEN Len(t) + 1 ELSE CHOOSE i \in dots : TRUE
    IN IF literal
       THEN [ok |-> TRUE,
             num |-> [NoTyped EXCEPT !.type = "float",
                         !.int = lstrip_zeros(SubSeq(t, 1, dot - 1)),
                         !.frac = rstrip_zeros(SubSeq(t, dot + 1, Len(t)))]]
       ELSE IF t = <<"n", "a", "n">>
       THEN [ok |-> TRUE, num |-> [NoTyped EXCEPT !.type = "float", !.nan = TRUE]]
       ELSE [ok |-> FALSE, num |-> NoTyped]

\* the value stored for val, without the cast
typed_asstring(val) == [NoTyped EXCEPT !.type = "str", !.text = val]

\* lines 653-657: the float of val, or val itself when float raises ValueError
typed(val) ==
    IF float(val).ok THEN float(val).num
    ELSE [NoTyped EXCEPT !.type = "str", !.text = val]

\* feature_dict[key] = value
SetItem(d, key, value) ==
    [k \in DOMAIN d \cup {key} |-> IF k = key THEN value ELSE d[k]]

\* the loop body that stores the whole line as the value of its key
parse_line_wholeline(d, raw) ==
    LET line == strip(raw)
        kv == split_first(line)
    IN IF line = <<>> \/ ~Contains(line, "=") THEN d
       ELSE SetItem(d, strip(kv[1]), typed(line))

\* the loop body that takes a line without '=' as a key without a value
parse_line_noskip(d, raw) ==
    LET line == strip(raw)
        kv == split_first(line)
    IN IF line = <<>> THEN d
       ELSE IF ~Contains(line, "=") THEN SetItem(d, line, typed(<<>>))
       ELSE SetItem(d, strip(kv[1]), typed(strip(kv[2])))

\* the loop body that keeps the first value of a key
parse_line_keepfirst(d, raw) ==
    LET line == strip(raw)
        kv == split_first(line)
    IN IF line = <<>> \/ ~Contains(line, "=") THEN d
       ELSE IF strip(kv[1]) \in DOMAIN d THEN d
       ELSE SetItem(d, strip(kv[1]), typed(strip(kv[2])))

\* the loop body, lines 645-657, on the record d and the line raw
parse_line(d, raw) ==
    LET line == strip(raw)
        kv == split_first(line)
    IN IF line = <<>> \/ ~Contains(line, "=") THEN d
       ELSE SetItem(d, strip(kv[1]), typed(strip(kv[2])))

\* the loop of line 644 over the lines from the n-th on
RECURSIVE parse_lines(_, _, _)
parse_lines(d, lines, n) ==
    IF n > Len(lines) THEN d
    ELSE parse_lines(parse_line(d, lines[n]), lines, n + 1)

\* the handler that sends whatever record it parsed to the model
handler_nocheck(text, raises) ==
    LET feature_dict == parse_lines(EmptyDict, splitlines(text), 1)
    IN [NoPrediction EXCEPT
            !.pressed = TRUE,
            !.outcome = IF raises THEN "error: could not predict" ELSE "success",
            !.feature_dict = feature_dict,
            !.predict_calls = <<feature_dict>>,
            !.y_pred = ~raises]

\* the handler without the try around model_pipe.predict
handler_notry(text, raises) ==
    IF strip(text) = <<>>
    THEN [NoPrediction EXCEPT !.pressed = TRUE,
                              !.outcome = "warning: provide a pair"]
    ELSE LET feature_dict == parse_lines(EmptyDict, splitlines(text), 1)
         IN IF feature_dict = EmptyDict
            THEN [NoPrediction EXCEPT !.pressed = TRUE,
                                      !.outcome = "warning: no valid pairs"]
            ELSE [NoPrediction EXCEPT
                      !.pressed = TRUE,
                      !.outcome = IF raises THEN "" ELSE "success",
                      !.feature_dict = feature_dict,
                      !.predict_calls = <<feature_dict>>,
                      !.y_pred = ~raises,
                      !.raised = raises]

\* lines 640-675; raises: model_pipe.predict raises on this input.  What
\* predict raises is caught at line 670 and shown; no value is shown then.
handler(text, raises) ==
    IF strip(text) = <<>>
    THEN [NoPrediction EXCEPT !.pressed = TRUE,
                              !.outcome = "warning: provide a pair"]
    ELSE LET feature_dict == parse_lines(EmptyDict, splitlines(text), 1)
         IN IF feature_dict = EmptyDict
            THEN [NoPrediction EXCEPT !.pressed = TRUE,
                                      !.outcome = "warning: no valid pairs"]
            ELSE [NoPrediction EXCEPT
                      !.pressed = TRUE,
                      !.outcome = IF raises THEN "error: could not predict"
                                  ELSE "success",
                      !.feature_dict = feature_dict,
                      !.predict_calls = <<feature_dict>>,
                      !.y_pred = ~raises]

\* st.button("Predict Lap Time") pressed; the button is drawn only by a run
\* of the page script that has the pipeline, so the load_laptime_model call
\* of the run that the press starts is answered from the cache
PressPredict(raises) ==
    /\ tab6.predict_button
    /\ prediction' = handler(user_kv_text, raises)
    /\ UNCHANGED <<user_kv_text, cacheVars, lapVars, telVars, modelVars, pageVars>>

InitKv ==
    /\ InitCache /\ program = "app" /\ layoutMatches
    /\ LapsIdle /\ TelIdle /\ ModelShown /\ PageIdle
    /\ user_kv_text \in KvTexts
    /\ prediction = NoPrediction

NextKv == \E raises \in BOOLEAN : PressPredict(raises)

SpecKv == InitKv /\ [][NextKv]_vars

\* ------------------------------------------------------------- the model tab
\* load_laptime_model and tab 6 of src/app.py.  The artifact is a file that
\* may be replaced, removed or spoilt while the process runs; the object it
\* holds may be a pipeline with the steps pre and model or anything else.
MaxFeatures == 3
MaxImportance == 1
top_n == 20

Importances == UNION {[1..n -> 0..MaxImportance] : n \in 1..MaxFeatures}
\* an object without named_steps has no steps, a pipeline without the step
\* model has no importances
Pipelines ==
    {[named_steps |-> TRUE, pre |-> p, model |-> TRUE, feature_importances_ |-> f,
      has_importances |-> TRUE, names_ok |-> n] :
        p \in BOOLEAN, n \in BOOLEAN, f \in Importances}
    \cup {[NoPipeline EXCEPT !.named_steps = TRUE, !.pre = p, !.model = m] :
             p \in BOOLEAN, m \in BOOLEAN}
    \cup {NoPipeline}

\* load_laptime_model without st.cache_resource
load_laptime_model_nocache(rc, file) ==
    IF file = "ok"
    THEN [value |-> "pipe", cache |-> rc, reads |-> 1,
          error_shown |-> FALSE, raised |-> FALSE]
    ELSE [value |-> "None", cache |-> rc, reads |-> 1,
          error_shown |-> TRUE, raised |-> FALSE]

\* load_laptime_model without the try around joblib.load
load_laptime_model_notry(rc, file) ==
    IF rc.set
    THEN [value |-> rc.value, cache |-> rc, reads |-> 0,
          error_shown |-> rc.value = "None", raised |-> FALSE]
    ELSE IF file = "ok"
    THEN [value |-> "pipe", cache |-> [set |-> TRUE, value |-> "pipe"], reads |-> 1,
          error_shown |-> FALSE, raised |-> FALSE]
    ELSE [value |-> "None", cache |-> rc, reads |-> 1,
          error_shown |-> FALSE, raised |-> TRUE]

\* load_laptime_model under st.cache_resource: the first call runs the body,
\* which reads the file and returns the pipeline, or shows the error and
\* returns None; the value returned is kept, None included, and every later
\* call returns it (and shows again what the body showed)
load_laptime_model(rc, file) ==
    IF rc.set
    THEN [value |-> rc.value, cache |-> rc, reads |-> 0,
          error_shown |-> rc.value = "None", raised |-> FALSE]
    ELSE IF file = "ok"
    THEN [value |-> "pipe", cache |-> [set |-> TRUE, value |-> "pipe"], reads |-> 1,
          error_shown |-> FALSE, raised |-> FALSE]
    ELSE [value |-> "None", cache |-> [set |-> TRUE, value |-> "None"], reads |-> 1,
          error_shown |-> TRUE, raised |-> FALSE]

\* DataFrame.sort_values("importance", ascending=False) with the default
\* kind, which is not stable: any order of the rows in which the importance
\* never rises
SortOrders(f) ==
    {o \in [1..Len(f) -> 1..Len(f)] :
        /\ \A i, j \in 1..Len(f) : i # j => o[i] # o[j]
        /\ \A i \in 1..(Len(f) - 1) : f[o[i]] >= f[o[i + 1]]}

\* DataFrame.head(n)
head(rows, n) == SubSeq(rows, 1, IF Len(rows) < n THEN Len(rows) ELSE n)

\* lines 525-558 that sort with kind="stable"
feature_importance_stable(pipe, order) ==
    IF ~pipe.named_steps THEN [outcome |-> "error", ranking |-> <<>>]
    ELSE IF pipe.pre /\ pipe.model /\ pipe.has_importances
    THEN LET f == pipe.feature_importances_
             o == CHOOSE q \in SortOrders(f) :
                      \A i, j \in 1..Len(f) : i < j /\ f[q[i]] = f[q[j]] => q[i] < q[j]
         IN [outcome |-> "chart",
             ranking |-> head([i \in 1..Len(f) |->
                                  [feature |-> <<IF pipe.names_ok THEN "pre" ELSE "feature_",
                                                 o[i]>>,
                                   importance |-> f[o[i]]]], top_n)]
    ELSE [outcome |-> "warning", ranking |-> <<>>]

\* lines 525-558 without the outer try
feature_importance_notry(pipe, order) ==
    IF ~pipe.named_steps THEN [outcome |-> "raised", ranking |-> <<>>]
    ELSE IF pipe.pre /\ pipe.model /\ pipe.has_importances
    THEN LET f == pipe.feature_importances_
         IN [outcome |-> "chart",
             ranking |-> head([i \in 1..Len(f) |->
                                  [feature |-> <<IF pipe.names_ok THEN "pre" ELSE "feature_",
                                                 order[i]>>,
                                   importance |-> f[order[i]]]], top_n)]
    ELSE [outcome |-> "warning", ranking |-> <<>>]

\* lines 525-558: the importances of the loaded object pipe, the rows put in
\* the order `order` by sort_values.  An object without named_steps raises
\* inside the try and the error is shown; names that cannot be read are
\* replaced by feature_<i>.
feature_importance(pipe, order) ==
    IF ~pipe.named_steps THEN [outcome |-> "error", ranking |-> <<>>]
    ELSE IF pipe.pre /\ pipe.model /\ pipe.has_importances
    THEN LET f == pipe.feature_importances_
         IN [outcome |-> "chart",
             ranking |-> head([i \in 1..Len(f) |->
                                  [feature |-> <<IF pipe.names_ok THEN "pre" ELSE "feature_",
                                                 order[i]>>,
                                   importance |-> f[order[i]]]], top_n)]
    ELSE [outcome |-> "warning", ranking |-> <<>>]

\* one run of the page script that reaches tab 6, lines 474-637
RenderModelTab(order) ==
    /\ order \in SortOrders(pipeline.feature_importances_)
    /\ LET l == load_laptime_model(resource_cache, artifact)
           e == feature_importance(pipeline, order)
       IN /\ resource_cache' = l.cache
          /\ disk_reads' = disk_reads + l.reads
          /\ tab6' = IF l.raised THEN [NoTab EXCEPT !.rendered = TRUE, !.raised = TRUE]
                     ELSE IF l.value = "None"
                     THEN [NoTab EXCEPT !.rendered = TRUE, !.cache_hit = l.reads = 0,
                                        !.load_error = l.error_shown,
                                        !.warning = TRUE]
                     ELSE [NoTab EXCEPT !.rendered = TRUE, !.cache_hit = l.reads = 0,
                                        !.raised = e.outcome = "raised",
                                        !.explanation = e,
                                        !.predict_button = e.outcome # "raised"]
    /\ UNCHANGED <<artifact, pipeline, cacheVars, lapVars, telVars, kvVars, pageVars>>

\* the file is replaced, removed or spoilt; the object a good file holds is
\* the same
ArtifactChanges(file) ==
    /\ file # artifact
    /\ artifact' = file
    /\ UNCHANGED <<pipeline, resource_cache, disk_reads, tab6, cacheVars, lapVars,
                   telVars, kvVars, pageVars>>

InitModel ==
    /\ InitCache /\ program = "app" /\ layoutMatches
    /\ LapsIdle /\ TelIdle
    /\ user_kv_text \in {<<>>, <<"k", "=", "1">>}
    /\ prediction = NoPrediction
    /\ artifact \in {"ok", "missing", "corrupt"}
    /\ pipeline \in Pipelines
    /\ resource_cache = NoCache /\ disk_reads = 0 /\ tab6 = NoTab
    /\ PageIdle

NextModel ==
    \/ \E order \in SortOrders(pipeline.feature_importances_) : RenderModelTab(order)
    \/ \E file \in {"ok", "missing", "corrupt"} : ArtifactChanges(file)
    \/ \E raises \in BOOLEAN : PressPredict(raises)

SpecModel == InitModel /\ [][NextModel]_vars

\* ------------------------------------------------------------------ claims
OutcomeStatuses == {"cached", "loaded", "nolaps", "failed"}
\* the outcome lines printed for a key in this run
OutcomeLines(k) == {i \in DOMAIN log : log[i][2] = k /\ log[i][1] \in OutcomeStatuses}
Printed(status, k) == \E i \in DOMAIN log : log[i] = <<status, k>>
FetchAttempts(k) == Cardinality({i \in DOMAIN upstreamCalls : upstreamCalls[i][1] = k})
JobEnded == pc \in {"done", "aborted"}
Called == lastCall.key # NoKey
Positions == {p \in (1..Len(SEASONS)) \X (1..NumEvents) \X (1..NumSessions) : TRUE}
KeyAt(p) == <<SEASONS[p[1]], EventSchedule(SEASONS[p[1]])[p[2]], SessionTypes[p[3]]>>
Before(p, q) ==
    \/ p[1] < q[1]
    \/ p[1] = q[1] /\ p[2] < q[2]
    \/ p[1] = q[1] /\ p[2] = q[2] /\ p[3] < q[3]

\* C1: in every reachable state, a key that exists(key) reports as present
\* has a complete entry, so that load(key) succeeds from the cache alone; a
\* partially written entry is never reported as present.
C1_ExistsImpliesLoadable ==
    \A k \in Keys : exists(k) => cache[k].state = "complete"

\* C2: whenever exists(key) is true, handling the key makes no upstream
\* fetch: neither the load_session_data call that found it present nor the
\* bulk-refresh iteration that printed "Cached" for it.
C2_HitMeansNoFetch ==
    /\ lastCall.hit => lastCall.calls = <<>>
    /\ \A k \in RunKeys : Printed("cached", k) => FetchAttempts(k) = 0

\* C3: after any successful load or fetch of a key, exists(key) is true (the
\* path cache/<season>/<event-name>/<session-type> is present), so that a
\* later pass over the key is a cache hit.
C3_FetchPopulates ==
    /\ \A k \in RunKeys : Printed("loaded", k) \/ Printed("nolaps", k) => exists(k)
    /\ Called /\ ~lastCall.raised => exists(lastCall.key)

C5_LaterTuplesProcessed ==
    JobEnded =>
        \A p, q \in Positions :
            Printed("failed", KeyAt(p)) /\ Before(p, q) => OutcomeLines(KeyAt(q)) # {}

\* C6: when the run has ended, exactly one outcome status (cached, fetched,
\* failed; the no-laps warning counted as fetched) is printed for every tuple
\* of seasons x events x session types, never zero and never two.
C6_ExactlyOneStatus ==
    JobEnded => \A k \in RunKeys : Cardinality(OutcomeLines(k)) = 1

\* C7: the job never ends otherwise than by its final "All sessions checked"
\* step, with every tuple visited exactly once, whatever the upstream calls do.
C7_AlwaysCompletes ==
    JobEnded =>
        /\ pc = "done"
        /\ Printed("allchecked", NoKey)
        /\ \A k \in RunKeys : Cardinality(OutcomeLines(k)) = 1

\* C8: no internal retry: at most one upstream fetch attempt per key in a run
\* of the job and in a call of the loader; a key whose fetch failed was asked
\* for exactly once.
C8_NoRetry ==
    /\ \A k \in Keys : FetchAttempts(k) <= 1
    /\ \A k \in RunKeys : Printed("failed", k) => FetchAttempts(k) = 1
    /\ Len(lastCall.calls) <= 1

\* C8 witness: a run that ended with a failed key, asked for once.
C8_Witness ==
    /\ pc = "done"
    /\ \E k \in RunKeys : Printed("failed", k) /\ FetchAttempts(k) = 1

\* C9: when the provider fails a load_session_data call, the call raises that
\* very error to its caller (not found, or fetch failure) and returns no
\* session.
C9_FailurePropagates ==
    \A i \in DOMAIN lastCall.calls :
        lastCall.calls[i] \in Failures =>
            /\ lastCall.raised
            /\ lastCall.error = lastCall.calls[i]
            /\ lastCall.session = NoData

\* C9 witness: a call the provider failed with a fetch error, raised to the caller.
C9_Witness ==
    /\ lastCall.calls = <<"neterr">>
    /\ lastCall.raised /\ lastCall.error = "neterr"

\* the lines and the cache entry a tuple whose fetch came back empty must have
EmptyHandledByJob ==
    \A i \in DOMAIN upstreamCalls :
        upstreamCalls[i][2] = "empty" =>
            /\ Printed("nolaps", upstreamCalls[i][1])
            /\ ~Printed("failed", upstreamCalls[i][1])
            /\ cache[upstreamCalls[i][1]].state = "complete"
            /\ cache[upstreamCalls[i][1]].data.laps = "empty"
EmptyReturnedByLoader ==
    lastCall.calls = <<"empty">> =>
        /\ ~lastCall.raised
        /\ lastCall.session.key = lastCall.key
        /\ lastCall.session.laps = "empty"
        /\ cache[lastCall.key] = [state |-> "complete", data |-> lastCall.session]

\* C10 as stated: an empty session is logged or flagged by the loader, still
\* returned and cached, and not reported as a failure, in the bulk job and in
\* load_session_data alike.
C10_EmptyFlaggedAndReturned ==
    /\ EmptyHandledByJob
    /\ EmptyReturnedByLoader
    /\ lastCall.calls = <<"empty">> => lastCall.lines # <<>>

\* C10 amended: an empty session is not a failure: the bulk job prints the
\* no-laps warning for the tuple, never the failure line, and the entry is
\* left complete in the cache; load_session_data returns the empty session of
\* the key and leaves it in the cache, printing and flagging nothing.
C10_EmptyIsNotFailure ==
    /\ EmptyHandledByJob
    /\ EmptyReturnedByLoader
    /\ lastCall.calls = <<"empty">> => lastCall.lines = <<>>

\* C10 witness: a run of the job that met an empty session, warned about it
\* and went on to its end.
C10_Witness ==
    /\ pc = "done"
    /\ \E i \in DOMAIN upstreamCalls :
          /\ upstreamCalls[i][2] = "empty"
          /\ Printed("nolaps", upstreamCalls[i][1])
          /\ cache[upstreamCalls[i][1]].data.laps = "empty"

\* ---------------------------------------------------- claims: lap analytics
LapsOf(d) == {i \in 1..Len(laps) : laps[i].Driver = d}
TimedLapsOf(d) == {i \in LapsOf(d) : laps[i].LapTime > 0}
CountedLapsOf(d) == {i \in LapsOf(d) : laps[i].IsPersonalBest}

\* what get_fastest_lap returned is the quickest of the laps in `among`,
\* and nothing when `among` is empty
FastestAmong(among) ==
    IF among = {} THEN call.fastest_lap = NoLap
    ELSE /\ \E i \in among : laps[i] = call.fastest_lap
         /\ \A i \in among : call.fastest_lap.LapTime <= laps[i].LapTime

\* C11 as stated: get_fastest_lap returns the lap of the least LapTime among
\* all the laps of the driver that have a time, and nothing (without an
\* error) when the driver has no lap with a time.
C11_FastestOfTimedLaps ==
    call.fn = "get_fastest_lap" => FastestAmong(TimedLapsOf(call.driver_code))

\* C11 amended: get_fastest_lap returns the lap of the least LapTime among
\* the laps of the driver that are flagged as personal best, and nothing
\* (without an error) when the driver has no such lap.
C11_FastestOfPersonalBests ==
    call.fn = "get_fastest_lap" => FastestAmong(CountedLapsOf(call.driver_code))

\* a driver whose quickest timed lap is not flagged, and who has a flagged lap
C11_Witness ==
    /\ call.fn = "get_fastest_lap"
    /\ call.fastest_lap # NoLap
    /\ \E i \in TimedLapsOf(call.driver_code) :
           laps[i].LapTime < call.fastest_lap.LapTime

\* C12: get_drivers_in_session returns every driver code of the lap table
\* exactly once, in ascending order, whatever the order of the laps.
C12_DriversSortedUnique ==
    call.fn = "get_drivers_in_session" =>
        /\ SeqRange(call.drivers) = {laps[i].Driver : i \in 1..Len(laps)}
        /\ \A i, j \in 1..Len(call.drivers) :
               i < j => Rank(call.drivers[i]) < Rank(call.drivers[j])

\* the laps name the later code first, the list names it last
C12_Witness ==
    /\ call.fn = "get_drivers_in_session"
    /\ Len(call.drivers) = 2
    /\ Rank(laps[1].Driver) = 2

\* ------------------------------------------- claims: telemetry and summary
Returned == page.done /\ "telemetry" \in SeqRange(page.rendered)
Dist(i) == page.telemetry.rows[i].Distance

\* the distance never falls along the samples, and no sample is lost or added
DistanceGrows ==
    /\ Len(page.telemetry.rows) = Len(car_data.rows)
    /\ \A i \in 1..(Len(page.telemetry.rows) - 1) : Dist(i) <= Dist(i + 1)

\* C13 as stated: get_telemetry_data returns as many samples as the lap has,
\* with a cumulative distance that is 0 at the first sample and never falls.
C13_DistanceFromZero ==
    Returned /\ car_data.rows # <<>> => DistanceGrows /\ Dist(1) = 0

\* C13 amended: get_telemetry_data returns as many samples as the lap has,
\* with a cumulative distance that never falls and that at the first sample
\* is the way made since the start of the lap: its Speed times its Time.
C13_DistanceFromLapStart ==
    Returned /\ car_data.rows # <<>> =>
        /\ DistanceGrows
        /\ Dist(1) = car_data.rows[1].Speed * car_data.rows[1].Time
        /\ Dist(1) >= 0

\* two samples, the first after the start of the lap with the car moving
C13_Witness ==
    /\ Returned
    /\ Len(page.telemetry.rows) = 2
    /\ 0 < Dist(1) /\ Dist(1) < Dist(2)

C15_MissingFieldDegrades ==
    page.done => ~page.raised /\ page.rendered = Sections

\* ------------------------------------------------ claims: the feature parser
\* the lines of the box, trimmed, and those of them that are pairs
KvLine(n) == strip(splitlines(user_kv_text)[n])
IsPair(n) == KvLine(n) # <<>> /\ Contains(KvLine(n), "=")
PairLines == {n \in 1..Len(splitlines(user_kv_text)) : IsPair(n)}
FirstEq(n) == CHOOSE i \in 1..Len(KvLine(n)) :
                  KvLine(n)[i] = "=" /\ ~Contains(SubSeq(KvLine(n), 1, i - 1), "=")
KeyOf(n) == strip(SubSeq(KvLine(n), 1, FirstEq(n) - 1))
ValOf(n) == strip(SubSeq(KvLine(n), FirstEq(n) + 1, Len(KvLine(n))))
Holds(key, value) ==
    key \in DOMAIN prediction.feature_dict /\ prediction.feature_dict[key] = value

\* C16: a line is cut at its first '=': for a key that one line gives, the
\* record holds under the trimmed text before the first '=' the whole
\* trimmed text after it, further '=' included.
C16_SplitOnFirstEq ==
    prediction.pressed =>
        \A n \in PairLines :
            (\A m \in PairLines \ {n} : KeyOf(m) # KeyOf(n))
            => Holds(KeyOf(n), typed(ValOf(n)))

\* a stored value that holds a '='
C16_Witness ==
    /\ prediction.pressed
    /\ \E n \in PairLines : /\ Contains(ValOf(n), "=")
                            /\ Holds(KeyOf(n), typed(ValOf(n)))
                            /\ prediction.feature_dict[KeyOf(n)].text = ValOf(n)

\* C17: blank lines and lines without '=' add no entry and no error: the keys
\* of the record are exactly the keys of the other lines.
C17_SkipsNonPairs ==
    prediction.pressed =>
        /\ DOMAIN prediction.feature_dict = {KeyOf(n) : n \in PairLines}
        /\ prediction.outcome \in {"warning: provide a pair", "warning: no valid pairs",
                                   "success", "error: could not predict"}

\* a text of a line without '=' and of a pair
C17_Witness ==
    /\ prediction.pressed
    /\ Cardinality(PairLines) = 1
    /\ \E n \in 1..Len(splitlines(user_kv_text)) : KvLine(n) # <<>> /\ ~IsPair(n)
    /\ Cardinality(DOMAIN prediction.feature_dict) = 1

\* C18: of several lines with the same key the record holds the value, and
\* the type, of the last one.
C18_LastOccurrenceWins ==
    prediction.pressed =>
        \A n, m \in PairLines :
            n < m /\ KeyOf(n) = KeyOf(m) /\ (\A q \in PairLines : q <= m)
            => Holds(KeyOf(m), typed(ValOf(m)))

\* two lines with one key, a number first and a string last
C18_Witness ==
    /\ prediction.pressed
    /\ \E n, m \in PairLines :
           /\ n < m /\ KeyOf(n) = KeyOf(m)
           /\ typed(ValOf(n)).type = "float"
           /\ Holds(KeyOf(m), typed(ValOf(m)))
           /\ prediction.feature_dict[KeyOf(m)].type = "str"

\* a decimal literal: digits with at most one '.', and at least one digit
IsBase10(t) ==
    /\ \A i \in 1..Len(t) : t[i] \in Digits \cup {"."}
    /\ Cardinality({i \in 1..Len(t) : t[i] = "."}) <= 1
    /\ \E i \in 1..Len(t) : t[i] \in Digits
LastOf(n) == \A m \in PairLines : KeyOf(m) = KeyOf(n) => m <= n
StoredAs(n) == prediction.feature_dict[KeyOf(n)]

\* C19 as stated: a value that is a base-10 number is stored as a number,
\* any other value as its trimmed text.
C19_NumberOrString ==
    prediction.pressed =>
        \A n \in PairLines :
            LastOf(n) =>
                IF IsBase10(ValOf(n)) THEN StoredAs(n).type = "float"
                ELSE StoredAs(n).type = "str" /\ StoredAs(n).text = ValOf(n)

\* C19 amended: a value that is a base-10 number is stored as that number,
\* the value nan as the float nan, any other value as its trimmed text.
C19_FloatOrString ==
    prediction.pressed =>
        \A n \in PairLines :
            LastOf(n) =>
                IF IsBase10(ValOf(n))
                THEN StoredAs(n).type = "float" /\ ~StoredAs(n).nan
                     /\ StoredAs(n) = float(ValOf(n)).num
                ELSE IF ValOf(n) = <<"n", "a", "n">>
                THEN StoredAs(n).type = "float" /\ StoredAs(n).nan
                ELSE StoredAs(n).type = "str" /\ StoredAs(n).text = ValOf(n)

\* the value nan was stored as a float, not as the string
C19_Witness ==
    /\ prediction.pressed
    /\ \E n \in PairLines : ValOf(n) = <<"n", "a", "n">> /\ StoredAs(n).type = "float"

\* C20: a text without a pair ends in a warning, and predict is never called
\* with a record without entries.
C20_EmptyFeatureSet ==
    prediction.pressed =>
        /\ PairLines = {} =>
               /\ prediction.outcome \in {"warning: provide a pair",
                                          "warning: no valid pairs"}
               /\ prediction.predict_calls = <<>>
        /\ \A i \in 1..Len(prediction.predict_calls) :
               prediction.predict_calls[i] # EmptyDict

\* a text of lines without '=' was answered with the warning
C20_Witness ==
    /\ prediction.pressed
    /\ strip(user_kv_text) # <<>>
    /\ PairLines = {}
    /\ prediction.outcome = "warning: no valid pairs"

\* str(value): a float as its integer digits, '.', and its fraction digits
\* (0 where there is none), the float nan as nan, a string as it is
Format(value) ==
    IF value.type = "str" THEN value.text
    ELSE IF value.nan THEN <<"n", "a", "n">>
    ELSE (IF value.int = <<>> THEN <<"0">> ELSE value.int) \o <<".">>
         \o (IF value.frac = <<>> THEN <<"0">> ELSE value.frac)

\* the record d as text: one line key=value per entry, the keys in the order
\* keys, the lines separated by line ends
RECURSIVE Serialize(_, _)
Serialize(d, keys) ==
    IF keys = <<>> THEN <<>>
    ELSE LET line == Head(keys) \o <<"=">> \o Format(d[Head(keys)])
         IN IF Len(keys) = 1 THEN line
            ELSE line \o <<"\n">> \o Serialize(d, Tail(keys))

KeyOrders(d) ==
    {o \in [1..Cardinality(DOMAIN d) -> DOMAIN d] :
        \A i, j \in 1..Cardinality(DOMAIN d) : i # j => o[i] # o[j]}

\* C21: the text of one line key=value per entry of a parsed record parses
\* to that record again: the same keys with the same values of the same type.
C21_ParseSerializeParse ==
    prediction.pressed =>
        \A o \in KeyOrders(prediction.feature_dict) :
            parse_lines(EmptyDict,
                        splitlines(Serialize(prediction.feature_dict, o)), 1)
            = prediction.feature_dict

\* a record of a number and a string whose text differs from the text typed
C21_Witness ==
    /\ prediction.pressed
    /\ \E k1, k2 \in DOMAIN prediction.feature_dict :
           /\ prediction.feature_dict[k1].type = "float"
           /\ prediction.feature_dict[k2].type = "str"
    /\ \A o \in KeyOrders(prediction.feature_dict) :
           Serialize(prediction.feature_dict, o) # user_kv_text

\* ------------------------------------------------------ claims: the model tab
Cached(value) == resource_cache = [set |-> TRUE, value |-> value]

\* C22: joblib.load runs at most once in the process; every run of the page
\* after the first is answered with the value kept from it, a failed load
\* (None) included, whatever the file is by then.
C22_LoadedOncePerProcess ==
    /\ disk_reads <= 1
    /\ tab6.rendered =>
           /\ disk_reads = 1
           /\ resource_cache.set
           /\ tab6.warning <=> Cached("None")
           /\ tab6.predict_button <=> Cached("pipe")

\* a run answered from the cache with the failed load, the file being good
C22_Witness ==
    /\ tab6.rendered /\ tab6.cache_hit
    /\ tab6.warning
    /\ artifact = "ok"

\* C23: with the artifact missing or corrupt the run of the page goes on to
\* its end, the failure is shown, no importances are computed, the Predict
\* button is not drawn and predict is never called.
C23_LoadFailureNotFatal ==
    tab6.rendered /\ ~Cached("pipe") =>
        /\ ~tab6.raised
        /\ tab6.warning
        /\ ~tab6.cache_hit => tab6.load_error
        /\ tab6.explanation = NoExplanation
        /\ ~tab6.predict_button
        /\ prediction = NoPrediction

\* the first run of the page with the artifact missing
C23_Witness ==
    /\ tab6.rendered /\ ~tab6.cache_hit
    /\ artifact = "missing"
    /\ tab6.warning /\ tab6.load_error

\* C24: what predict raises on a record is caught and shown, no value is
\* shown, and the pipeline stays loaded and the button drawn.
C24_PredictFailureContained ==
    prediction.pressed =>
        /\ ~prediction.raised
        /\ prediction.outcome = "error: could not predict" =>
               ~prediction.y_pred /\ Len(prediction.predict_calls) = 1
        /\ Cached("pipe")
        /\ tab6.predict_button

\* predict raised on the record of the box
C24_Witness ==
    /\ prediction.pressed
    /\ prediction.outcome = "error: could not predict"
    /\ prediction.feature_dict # EmptyDict

\* C25: the ranking shown falls in importance, and features of the same
\* importance keep the order of the feature names.
C25_StableDescending ==
    tab6.explanation.outcome = "chart" =>
        \A i, j \in 1..Len(tab6.explanation.ranking) :
            i < j =>
                LET a == tab6.explanation.ranking[i]
                    b == tab6.explanation.ranking[j]
                IN /\ a.importance >= b.importance
                   /\ a.importance = b.importance => a.feature[2] < b.feature[2]

\* C26: computing the importances raises nothing out of its block: without
\* importances or without the step pre or model nothing is ranked and a
\* warning is shown, and names that cannot be read are replaced.
C26_ExplainNeverFails ==
    tab6.rendered /\ Cached("pipe") =>
        /\ ~tab6.raised
        /\ tab6.explanation.outcome \in {"chart", "warning", "error"}
        /\ pipeline.named_steps
           /\ ~(pipeline.pre /\ pipeline.model /\ pipeline.has_importances)
           => tab6.explanation = [outcome |-> "warning", ranking |-> <<>>]
        /\ pipeline.named_steps /\ pipeline.pre /\ pipeline.has_importances
           => /\ tab6.explanation.outcome = "chart"
              /\ Len(tab6.explanation.ranking) = Len(pipeline.feature_importances_)
        /\ tab6.explanation.outcome # "chart" => tab6.explanation.ranking = <<>>

\* a pipeline whose feature names cannot be read was ranked
C26_Witness ==
    /\ tab6.rendered /\ Cached("pipe")
    /\ ~pipeline.names_ok
    /\ tab6.explanation.outcome = "chart"
    /\ \A i \in 1..Len(tab6.explanation.ranking) :
           tab6.explanation.ranking[i].feature[1] = "feature_"

\* C27: a press of Load whose load raises changes none of the four entries
\* of the session state; a session loaded before stays the stored one.
C27_FailedLoadKeepsSessionState ==
    [][(loads' = loads + 1 /\ lastCall'.raised)
        => session_state' = session_state]_vars

\* a load of another selection failed while a loaded session was stored
C27_Witness ==
    /\ lastCall.raised
    /\ session_state.session_data.laps = "some"
    /\ lastCall.key # session_state.session_data.key
    /\ lastCall.key # <<session_state.season, session_state.selected_gp,
                        session_state.session_name>>

\* C28: the session type the Session Info tab shows is the session type of
\* the stored session, whatever selectors were changed and loads pressed.
C28_ShownSessionIsLoaded ==
    tab5.shown => tab5.Session = session_state.session_data.key[3]

\* ------------------------------------------------ claims: the driver part
\* C29: a run of the page calls a function of the loader module only on a
\* session that is stored, asks for the fastest lap only of a selected
\* driver, and reaches get_telemetry_data and the analytics of the driver
\* only with a lap that is not None.
C29_AnalyticsGuarded ==
    /\ pagerun.calls # <<>> =>
           /\ pagerun.session # NoData
           /\ \A i \in 1..Len(pagerun.calls) : pagerun.calls[i].session = pagerun.session
    /\ \A i \in 1..Len(pagerun.calls) :
           /\ pagerun.calls[i].fn = "get_fastest_lap"
              => pagerun.calls[i].driver_code \in SeqRange(pagerun.drivers)
           /\ pagerun.calls[i].fn = "get_telemetry_data"
              => /\ pagerun.calls[i].lap # NoLap
                 /\ pagerun.calls[i].lap.Driver = pagerun.selected_driver
                 /\ pagerun.selected_driver # ""
    /\ pagerun.analytics =>
           /\ pagerun.session # NoData
           /\ pagerun.selected_driver # ""
           /\ pagerun.fastest_lap # NoLap

\* a run on a stored session whose selected driver has no fastest lap
C29_Witness ==
    /\ pagerun.done /\ pagerun.session.laps = "some"
    /\ pagerun.selected_driver # ""
    /\ get_fastest_lap(laps, pagerun.selected_driver) = NoLap
    /\ Len(pagerun.calls) = 2
====
